---- MODULE Spec2Model ----
(***************************************************************************)
(* Model of server.py, the registration server of Syntul-Masters 2026.     *)
(*                                                                         *)
(* Text is a sequence of one-character strings.  "S" stands for a lone     *)
(* surrogate code point (JSON "\ud800"): json.loads accepts it, str.strip  *)
(* and html.escape keep it, and the utf-8 encoder of the data file rejects *)
(* it.  "M"/"F" stand for the two Cyrillic gender letters, "K"/"C" for the  *)
(* Cyrillic boat letters.                                                  *)
(***************************************************************************)
EXTENDS Integers, Sequences, FiniteSets, TLC

VARIABLES file, h, reply, clock, committed, opens, valid, before

vars == <<file, h, reply, clock, committed, opens, valid, before>>

\* ------------------------------------------------------------------ bounds
MaxConn == 3
MaxClock == 1
MaxIds == 2

Conn == 1..MaxConn
IdSpace == 1..MaxIds

\* --------------------------------------------------------------- constants
ADMIN_TOKEN == "changeme"
VALID_GENDERS == {<<"M">>, <<"F">>}
VALID_BOATS == {<<"K", "-", "1">>, <<"K", "-", "2">>, <<"K", "-", "4">>,
                <<"C", "-", "1">>, <<"C", "-", "2">>, <<"C", "-", "4">>}
VALID_DISTANCES == {<<"2", "0", "0">>, <<"5", "0", "0">>, <<"1", "0", "0", "0">>,
                    <<"5", "0", "0", "0">>, <<"4", "x", "2", "0", "0">>}

required == <<"surname", "firstname", "birthdate", "gender", "country",
              "city", "team", "boat_class", "phone">>

headers == <<"No", "timestamp", "surname", "firstname", "patronymic",
             "birthdate", "gender", "country", "city", "rank", "team",
             "boat_class", "phone", "distances">>

\* ------------------------------------------------------------ text helpers
IsSpace(ch) == ch = " "

RECURSIVE lstrip(_)
lstrip(s) == IF s # <<>> /\ IsSpace(Head(s)) THEN lstrip(Tail(s)) ELSE s

RECURSIVE rstrip(_)
rstrip(s) ==
    IF s # <<>> /\ IsSpace(s[Len(s)]) THEN rstrip(SubSeq(s, 1, Len(s) - 1)) ELSE s

\* str.strip()
strip(s) == rstrip(lstrip(s))

\* html.escape(ch, quote=True) of one character
escapeChar(ch) ==
    CASE ch = "&" -> <<"&", "a", "m", "p", ";">>
      [] ch = "<" -> <<"&", "l", "t", ";">>
      [] ch = ">" -> <<"&", "g", "t", ";">>
      [] ch = "\"" -> <<"&", "q", "u", "o", "t", ";">>
      [] ch = "'" -> <<"&", "#", "x", "2", "7", ";">>
      [] OTHER -> <<ch>>

RECURSIVE escape(_)
escape(s) == IF s = <<>> THEN <<>> ELSE escapeChar(Head(s)) \o escape(Tail(s))

sanitizeNoStrip(value) == escape(value)

\* sanitize(value): escape(str(value).strip())
sanitize(value) == escape(strip(value))

\* the utf-8 codec of the data file encodes every character but a surrogate
Encodable(s) == \A i \in 1..Len(s) : s[i] # "S"

RECURSIVE join(_, _)
\* sep.join(list)
join(sep, list) ==
    IF list = <<>> THEN <<>>
    ELSE IF Len(list) = 1 THEN list[1]
    ELSE list[1] \o sep \o join(sep, Tail(list))

\* -------------------------------------------------------------- JSON values
JStr(s) == [k |-> "str", v |-> s]
\* a JSON number; v is the text str() gives for it
JNum(text) == [k |-> "num", v |-> text]
JList(l) == [k |-> "list", v |-> l]
JObj(o) == [k |-> "obj", v |-> o]
Garbage == [k |-> "garbage", v |-> <<>>]

\* dict.get(key, default)
get(body, key, default) == IF key \in DOMAIN body THEN body[key] ELSE default

\* a well-formed submission; the payloads below vary it one field at a time
BaseBody ==
    [surname |-> JStr(<<"a">>), firstname |-> JStr(<<"b">>),
     patronymic |-> JStr(<<>>), birthdate |-> JStr(<<"1">>),
     gender |-> JStr(<<"M">>), country |-> JStr(<<"c">>),
     city |-> JStr(<<"d">>), rank |-> JStr(<<>>), team |-> JStr(<<"t">>),
     boat_class |-> JStr(<<"K", "-", "1">>), phone |-> JStr(<<"7">>),
     distances |-> JList(<<JStr(<<"2", "0", "0">>)>>)]

Without(body, key) == [f \in DOMAIN body \ {key} |-> body[f]]

\* every valid variation at once: padding and markup, the other enum
\* values, an optional field left out, unknown and repeated distances
VariedBody ==
    Without([BaseBody EXCEPT !.surname = JStr(<<" ", "<", "a", ">", " ">>),
                             !.patronymic = JStr(<<" ", "\"", "&", "'">>),
                             !.gender = JStr(<<"F">>),
                             !.boat_class = JStr(<<"C", "-", "2">>),
                             !.distances =
                                 JList(<<JStr(<<"5", "0", "0">>),
                                         JStr(<<"b", "o", "g", "u", "s">>),
                                         JStr(<<"5", "0", "0">>)>>)],
            "rank")

Bodies ==
    {BaseBody,
     VariedBody,
     \* a lone surrogate in a text field, a number in an optional field
     Without([BaseBody EXCEPT !.surname = JStr(<<"S">>), !.rank = JNum(<<"5">>)],
             "distances"),
     [BaseBody EXCEPT !.phone = JStr(<<" ">>)],
     [BaseBody EXCEPT !.gender = JStr(<<"X">>)],
     [BaseBody EXCEPT !.boat_class = JStr(<<"K", "-", "3">>)],
     [BaseBody EXCEPT !.city = JNum(<<"5">>)],
     [BaseBody EXCEPT !.distances = JNum(<<"5">>)],
     \* an unknown candidate that is itself a JSON array
     [BaseBody EXCEPT !.distances = JList(<<JStr(<<"2", "0", "0">>), JList(<<>>)>>)],
     \* a number ahead of a blank field, a blank field ahead of a bad enum
     [Without(BaseBody, "team") EXCEPT !.surname = JNum(<<"5">>)],
     [BaseBody EXCEPT !.firstname = JStr(<<" ", " ">>), !.gender = JStr(<<"X">>)],
     [BaseBody EXCEPT !.gender = JStr(<<" ", "M">>)],
     Without(Without(BaseBody, "phone"), "birthdate"),
     Without(BaseBody, "team")}

Request(method, path, token, raw) ==
    [method |-> method, path |-> path, token |-> token, raw |-> raw]

Requests ==
    {Request("GET", "/api", t, Garbage) : t \in {ADMIN_TOKEN, "wrong"}}
    \cup {Request("POST", "/api/export", t, Garbage) : t \in {ADMIN_TOKEN, "wrong"}}
    \cup {Request("POST", "/other", "", Garbage)}
    \cup {Request("POST", "/api", "", Garbage)}
    \cup {Request("POST", "/api", "", JList(<<>>))}
    \cup {Request("POST", "/api", "", JObj(b)) : b \in Bodies}

\* ------------------------------------------------------- the data document
Tok(t, e) == [t |-> t, e |-> e]

\* the chunks json.dump(data, f, ensure_ascii=False, indent=2) writes
RECURSIVE DumpItems(_)
DumpItems(data) ==
    IF data = <<>> THEN <<>>
    ELSE <<Tok("entry", Head(data))>> \o DumpItems(Tail(data))

Dump(data) == <<Tok("[", <<>>)>> \o DumpItems(data) \o <<Tok("]", <<>>)>>

IsArrayText(content) ==
    /\ Len(content) >= 2
    /\ content[1].t = "[" /\ content[Len(content)].t = "]"
    /\ \A i \in 2..(Len(content) - 1) : content[i].t = "entry"

\* the text of one JSON value that is not an array, such as {} or 5
IsValueText(content) == Len(content) = 1 /\ content[1].t = "value"

\* not content.strip(): nothing but whitespace
Blank(content) == \A i \in 1..Len(content) : content[i].t = "space"

\* json.loads(content) succeeds
Parses(content) == IsArrayText(content) \/ IsValueText(content)

\* json.loads(content), for content that parses
Loads(content) == [i \in 1..(Len(content) - 2) |-> content[i + 1].e]

NoFile == [exists |-> FALSE, content |-> <<>>]

read_registrationsStrict(f) ==
    IF ~f.exists THEN [err |-> FALSE, data |-> <<>>]
    ELSE IF ~IsArrayText(f.content) THEN [err |-> TRUE, data |-> <<>>]
    ELSE [err |-> FALSE, data |-> Loads(f.content)]

\* read_registrations(): [err |-> the call raised, data |-> the list returned]
read_registrations(f) ==
    IF ~f.exists THEN [err |-> FALSE, data |-> <<>>]
    ELSE IF Blank(f.content) THEN [err |-> FALSE, data |-> <<>>]
    ELSE IF ~Parses(f.content) THEN [err |-> TRUE, data |-> <<>>]
    ELSE IF ~IsArrayText(f.content) THEN [err |-> FALSE, data |-> <<>>]
    ELSE [err |-> FALSE, data |-> Loads(f.content)]

\* every text field of an entry can be encoded to the file
EntryEncodable(e) ==
    \A f \in {"surname", "firstname", "patronymic", "birthdate", "gender",
              "country", "city", "rank", "team", "boat_class", "phone"} :
        Encodable(e[f])

\* --------------------------------------------------------------- responses
Response(status, success, error, field, id, data) ==
    [status |-> status, success |-> success, error |-> error, field |-> field,
     id |-> id, data |-> data]

NoResponse == Response("none", FALSE, "", "", 0, <<>>)
\* exception exc leaves the handler: the connection closes with no reply
Raised(exc) == Response("raised", FALSE, exc, "", 0, <<>>)
Unauthorized == Response("401", FALSE, "bad token", "", 0, <<>>)
NotFound == Response("404", FALSE, "Not found", "", 0, <<>>)
BadJSON == Response("400", FALSE, "bad data", "", 0, <<>>)
FieldRequired(field) == Response("400", FALSE, "required", field, 0, <<>>)
BadGender == Response("400", FALSE, "bad gender", "", 0, <<>>)
BadBoat == Response("400", FALSE, "bad boat class", "", 0, <<>>)
Created(id) == Response("200", TRUE, "", "", id, <<>>)
Listing(registrations) == Response("200", TRUE, "", "", 0, registrations)
Report(rows) == Response("200", TRUE, "xlsx", "", 0, rows)

TokenAny(r) == TRUE

\* _check_admin_token
check_admin_token(r) == r.token = ADMIN_TOKEN

\* ------------------------------------------------------------- validation
\* body.get(field, "").strip() raises for a value that is not text
StripRaises(body, field) == get(body, field, JStr(<<>>)).k # "str"

FieldBlankNoStrip(body, field) == get(body, field, JStr(<<>>)).v = <<>>

\* not body.get(field, "").strip()
FieldBlank(body, field) == strip(get(body, field, JStr(<<>>)).v) = <<>>

RECURSIVE CheckRequired(_, _)
\* the loop over required, from index i: "ok", "raise", or the field rejected
CheckRequired(body, i) ==
    IF i > Len(required) THEN "ok"
    ELSE IF StripRaises(body, required[i]) THEN "raise"
    ELSE IF FieldBlank(body, required[i]) THEN required[i]
    ELSE CheckRequired(body, i + 1)

RECURSIVE FilterDistances(_)
\* the loop that keeps the members of VALID_DISTANCES, in input order
FilterDistances(list) ==
    IF list = <<>> THEN <<>>
    ELSE IF Head(list).k = "str" /\ Head(list).v \in VALID_DISTANCES
         THEN <<Head(list).v>> \o FilterDistances(Tail(list))
         ELSE FilterDistances(Tail(list))

\* d in VALID_DISTANCES hashes d: an array or an object cannot be hashed
Unhashable(d) == d.k \in {"list", "obj"}

\* iterating body.get("distances", []) raises for a number, the membership
\* test raises for a candidate that cannot be hashed
DistancesRaise(body) ==
    LET d == get(body, "distances", JList(<<>>))
    IN \/ d.k = "num"
       \/ d.k = "list" /\ \E i \in 1..Len(d.v) : Unhashable(d.v[i])

Distances(body) ==
    LET d == get(body, "distances", JList(<<>>))
    IN IF d.k = "list" THEN FilterDistances(d.v) ELSE <<>>

GenderAny(body) == TRUE

\* body["gender"] in VALID_GENDERS
GenderValid(body) == body["gender"].v \in VALID_GENDERS

BoatValid(body) == body["boat_class"].v \in VALID_BOATS

\* the entry built from a validated body
Entry(body, id, timestamp) ==
    [id |-> id,
     timestamp |-> timestamp,
     surname |-> sanitize(body["surname"].v),
     firstname |-> sanitize(body["firstname"].v),
     patronymic |-> sanitize(get(body, "patronymic", JStr(<<>>)).v),
     birthdate |-> sanitize(body["birthdate"].v),
     gender |-> body["gender"].v,
     country |-> sanitize(body["country"].v),
     city |-> sanitize(body["city"].v),
     rank |-> sanitize(get(body, "rank", JStr(<<>>)).v),
     team |-> sanitize(body["team"].v),
     boat_class |-> body["boat_class"].v,
     phone |-> sanitize(body["phone"].v),
     distances |-> Distances(body)]

\* do_POST from json.loads(raw) to the entry: the response that ends the
\* request early, or "ok"
Validate(raw) ==
    IF raw.k = "garbage" THEN BadJSON
    ELSE IF raw.k # "obj" THEN Raised("AttributeError")
    ELSE LET c == CheckRequired(raw.v, 1)
         IN IF c = "raise" THEN Raised("AttributeError")
            ELSE IF c # "ok" THEN FieldRequired(c)
            ELSE IF ~GenderValid(raw.v) THEN BadGender
            ELSE IF ~BoatValid(raw.v) THEN BadBoat
            ELSE IF DistancesRaise(raw.v) THEN Raised("TypeError")
            ELSE Response("ok", TRUE, "", "", 0, <<>>)

\* ------------------------------------------------------------------ report
RowSwapped(i, reg) ==
    <<i, reg.timestamp, reg.firstname, reg.surname, reg.patronymic,
      reg.birthdate, reg.gender, reg.country, reg.city, reg.rank, reg.team,
      reg.boat_class, reg.phone, join(<<",", " ">>, reg.distances)>>

Row(i, reg) ==
    <<i, reg.timestamp, reg.surname, reg.firstname, reg.patronymic,
      reg.birthdate, reg.gender, reg.country, reg.city, reg.rank, reg.team,
      reg.boat_class, reg.phone, join(<<",", " ">>, reg.distances)>>

\* the worksheet make_xlsx fills: the header row, then one row per entry
make_xlsx(registrations) ==
    <<headers>> \o [i \in 1..Len(registrations) |-> Row(i, registrations[i])]

\* ------------------------------------------------------------------- state
\* file      the data file DATA_FILE: whether it exists and the chunks in it
\* h[c]      connection c and the handler serving it: its position (pc), the
\*           request, the handler's locals entry and registrations, and the
\*           index of the next chunk save_registrations writes
\* reply     the request whose handler returned last and what the client got
\*           for it; the client has consumed it when the next handler starts
\* clock     the last value datetime.now() returned, in seconds
\* committed history: the entries whose save_registrations call returned, in
\*           the order the calls returned
\* opens     history: how many times the data file was opened for writing;
\*           h[c].ver is its value when handler c read the file
\* valid     history: how many submissions passed validation
\* before    history: what read_registrations would have returned just
\*           before the data file was last opened for writing
NoEntry == Entry(BaseBody, 0, 0)

NoRequest == Request("", "", "", Garbage)

Fresh ==
    [pc |-> "idle", req |-> NoRequest, entry |-> NoEntry,
     registrations |-> <<>>, pos |-> 0, ver |-> 0]

NoReply == [req |-> NoRequest, resp |-> NoResponse]

Init ==
    /\ file = NoFile
    /\ h = [c \in Conn |-> Fresh]
    /\ reply = NoReply
    /\ clock = 0
    /\ committed = <<>>
    /\ opens = 0
    /\ valid = 0
    /\ before = read_registrations(NoFile)

Running == {"read", "save_open", "save_write"}

ServerThreaded == FALSE

\* HTTPServer handles one request at a time: serve_forever takes the next
\* connection only after the handler of the previous one has returned
ServerBusy == \E c \in Conn : h[c].pc \in Running

\* the handler of connection c returns, having sent resp (or nothing)
Return(c, r, resp) ==
    /\ h' = [h EXCEPT ![c] = [Fresh EXCEPT !.pc = "closed"]]
    /\ reply' = [req |-> r, resp |-> resp]

\* a client connects and sends a request; it waits in the listen queue
Connect(c) ==
    /\ h[c].pc = "idle"
    /\ \A d \in Conn : d < c => h[d].pc # "idle"
    /\ h' = [h EXCEPT ![c].pc = "pending"]
    /\ UNCHANGED <<file, reply, clock, committed, opens, valid, before>>

\* the handler goes on to call read_registrations
ToRead(c, r, e) ==
    /\ h' = [h EXCEPT ![c] = [@ EXCEPT !.pc = "read", !.req = r, !.entry = e]]
    /\ reply' = NoReply

\* do_GET up to the call of read_registrations
do_GET(c, r) ==
    /\ r.method = "GET" /\ r.path = "/api"
    /\ IF ~check_admin_token(r) THEN Return(c, r, Unauthorized)
       ELSE ToRead(c, r, NoEntry)

\* do_POST, export branch, up to the call of read_registrations
do_POST_export(c, r) ==
    /\ r.method = "POST" /\ r.path = "/api/export"
    /\ IF ~check_admin_token(r) THEN Return(c, r, Unauthorized)
       ELSE ToRead(c, r, NoEntry)

\* do_POST for a path that is neither /api/export nor /api
do_POST_other(c, r) ==
    /\ r.method = "POST" /\ r.path \notin {"/api/export", "/api"}
    /\ Return(c, r, NotFound)

\* datetime.now() may return t: time does not run backwards
Now(t) == t \in clock..MaxClock

\* do_POST, registration branch, up to the call of read_registrations:
\* validation, then the entry with its uuid4 id and the current time
do_POST_submit(c, r) ==
    /\ r.method = "POST" /\ r.path = "/api"
    /\ LET v == Validate(r.raw)
       IN IF v.status # "ok" THEN Return(c, r, v) /\ UNCHANGED <<clock, valid>>
          ELSE \E id \in IdSpace, t \in 0..MaxClock :
                 /\ Now(t)
                 /\ clock' = t
                 /\ valid' = valid + 1
                 /\ ToRead(c, r, Entry(r.raw.v, id, t))

\* the server takes the connection at the head of the listen queue and runs
\* its handler
AcceptFrom(c, pool) ==
    /\ h[c].pc = "pending"
    /\ \A d \in Conn : d < c => h[d].pc # "pending"
    /\ ~ServerBusy
    /\ \E r \in pool :
         \/ do_GET(c, r) /\ UNCHANGED <<clock, valid>>
         \/ do_POST_export(c, r) /\ UNCHANGED <<clock, valid>>
         \/ do_POST_other(c, r) /\ UNCHANGED <<clock, valid>>
         \/ do_POST_submit(c, r)
    /\ UNCHANGED <<file, committed, opens, before>>

Accept(c) == AcceptFrom(c, Requests)

PrependEntry(registrations, entry) == <<entry>> \o registrations

\* registrations.append(entry)
AppendEntry(registrations, entry) == Append(registrations, entry)

\* the call of read_registrations and what the handler does with the list
Read(c) ==
    /\ h[c].pc = "read"
    /\ LET got == read_registrations(file)
           r == h[c].req
       IN IF got.err THEN Return(c, r, Raised("JSONDecodeError"))
          ELSE IF r.method = "GET" THEN Return(c, r, Listing(got.data))
          ELSE IF r.path = "/api/export"
               THEN Return(c, r, Report(make_xlsx(got.data)))
          ELSE /\ h' = [h EXCEPT ![c].pc = "save_open", ![c].ver = opens,
                                 ![c].registrations =
                                     AppendEntry(got.data, h[c].entry)]
               /\ UNCHANGED reply
    /\ UNCHANGED <<file, clock, committed, opens, valid, before>>

\* save_registrations: open(DATA_FILE, "w") creates or truncates the file
SaveOpen(c) ==
    /\ h[c].pc = "save_open"
    /\ file' = [exists |-> TRUE, content |-> <<>>]
    /\ opens' = opens + 1
    /\ before' = read_registrations(file)
    /\ h' = [h EXCEPT ![c].pc = "save_write", ![c].pos = 1]
    /\ UNCHANGED <<reply, clock, committed, valid>>

\* json.dump writes the next chunk; a chunk that cannot be encoded is cut
\* short and UnicodeEncodeError leaves the handler
SaveWrite(c) ==
    /\ h[c].pc = "save_write"
    /\ h[c].pos <= Len(Dump(h[c].registrations))
    /\ LET tok == Dump(h[c].registrations)[h[c].pos]
       IN IF tok.t = "entry" /\ ~EntryEncodable(tok.e)
          THEN /\ file' = [file EXCEPT !.content = Append(@, Tok("partial", <<>>))]
               /\ Return(c, h[c].req, Raised("UnicodeEncodeError"))
          ELSE /\ file' = [file EXCEPT !.content = Append(@, tok)]
               /\ h' = [h EXCEPT ![c].pos = @ + 1]
               /\ UNCHANGED reply
    /\ UNCHANGED <<clock, committed, opens, valid, before>>

\* the with block ends, save_registrations returns, the handler replies
SaveClose(c) ==
    /\ h[c].pc = "save_write"
    /\ h[c].pos > Len(Dump(h[c].registrations))
    /\ committed' = Append(committed, h[c].entry)
    /\ Return(c, h[c].req, Created(h[c].entry.id))
    /\ UNCHANGED <<file, clock, opens, valid, before>>

\* the write of the next chunk fails (OSError: disk full): what was
\* written stays, the exception leaves the handler
SaveFail(c) ==
    /\ h[c].pc = "save_write"
    /\ h[c].pos <= Len(Dump(h[c].registrations))
    /\ Return(c, h[c].req, Raised("OSError"))
    /\ UNCHANGED <<file, clock, committed, opens, valid, before>>

Next ==
    \/ \E c \in Conn : Connect(c)
    \/ \E c \in Conn : Accept(c)
    \/ \E c \in Conn : Read(c)
    \/ \E c \in Conn : SaveOpen(c)
    \/ \E c \in Conn : SaveWrite(c)
    \/ \E c \in Conn : SaveClose(c)
    \/ \E c \in Conn : SaveFail(c)

Spec == Init /\ [][Next]_vars

\* ------------------------------------------- the server on a found document
\* the data file the server finds when it starts: none, an empty one, one of
\* whitespace, one holding a JSON value that is not an array
Documents ==
    {NoFile,
     [exists |-> TRUE, content |-> <<>>],
     [exists |-> TRUE, content |-> <<Tok("space", <<>>)>>],
     [exists |-> TRUE, content |-> <<Tok("space", <<>>), Tok("space", <<>>)>>],
     [exists |-> TRUE, content |-> <<Tok("value", <<>>)>>]}

DocRequests ==
    {Request("GET", "/api", ADMIN_TOKEN, Garbage),
     Request("POST", "/api/export", ADMIN_TOKEN, Garbage),
     Request("POST", "/other", "", Garbage),
     Request("POST", "/api", "", JObj(BaseBody))}

InitDoc ==
    /\ file \in Documents
    /\ h = [c \in Conn |-> Fresh]
    /\ reply = NoReply
    /\ clock = 0
    /\ committed = <<>>
    /\ opens = 0
    /\ valid = 0
    /\ before = read_registrations(file)

NextDoc ==
    \/ \E c \in Conn : Connect(c)
    \/ \E c \in Conn : AcceptFrom(c, DocRequests)
    \/ \E c \in Conn : Read(c)
    \/ \E c \in Conn : SaveOpen(c)
    \/ \E c \in Conn : SaveWrite(c)
    \/ \E c \in Conn : SaveClose(c)
    \/ \E c \in Conn : SaveFail(c)

SpecDoc == InitDoc /\ [][NextDoc]_vars

\* ------------------------------------------------------------- properties
\* what a load would return now
Load == read_registrations(file)

IsSubmit(r) == r.method = "POST" /\ r.path = "/api"

\* handler c is between its read of the document and the end of its write
\* (do_POST, the three lines from read_registrations to save_registrations)
InCritical(c) == h[c].pc \in Running /\ IsSubmit(h[c].req)

\* no request is waiting or being handled
Settled == \A c \in Conn : h[c].pc \in {"idle", "closed"}

Served == Cardinality({c \in Conn : h[c].pc = "closed"})

IsPrefix(s, t) == Len(s) <= Len(t) /\ \A i \in 1..Len(s) : s[i] = t[i]

DistinctIds(data) ==
    \A i \in 1..Len(data) : \A j \in 1..Len(data) :
        i # j => data[i].id # data[j].id

\* C1: when K submissions that all pass validation have all completed
\* against the empty store, the document holds exactly K entries with K
\* distinct ids.
C1_NoLostWrites ==
    (Settled /\ Served >= 1 /\ valid = Served)
        => /\ ~Load.err
           /\ Len(Load.data) = Served
           /\ DistinctIds(Load.data)

\* C2: whenever a load is about to read the document, the document is
\* complete: the load does not fail and returns the sequence committed so
\* far, never a truncated or partially written one.
C2_LoadSeesCommitted ==
    (\E c \in Conn : h[c].pc = "read")
        => ~Load.err /\ Load.data = committed

\* C3: at most one submission is inside the critical section from the read
\* of the document to the end of its write, and a submission that is about
\* to write has read the document as it is now: nobody wrote since.
C3_SingleWriter ==
    /\ \A c \in Conn : \A d \in Conn :
           InCritical(c) /\ InCritical(d) => c = d
    /\ \A c \in Conn : h[c].pc = "save_open" => h[c].ver = opens

\* a submission is rewriting a document that holds a committed entry while
\* another request is waiting
C3_Witness ==
    \E c \in Conn : \E d \in Conn :
        /\ h[c].pc = "save_write" /\ h[c].pos > 1
        /\ h[d].pc = "pending"
        /\ Len(committed) >= 1

SaveFailed ==
    /\ reply.resp.status = "raised"
    /\ reply.resp.error \in {"UnicodeEncodeError", "OSError"}

\* C4: after save_registrations has failed, the document still holds
\* exactly the previously committed sequence and a load returns it.
C4_FailedWriteKeepsDocument ==
    SaveFailed => ~Load.err /\ Load.data = committed

\* C5: right after a successful append of x, a load returns the sequence
\* persisted before the append followed by one entry: x's validated fields,
\* the id returned to the caller and the time read while handling x.
C5_RoundTrip ==
    (reply.resp.status = "200" /\ IsSubmit(reply.req))
        => /\ ~Load.err /\ ~before.err
           /\ Len(Load.data) = Len(before.data) + 1
           /\ SubSeq(Load.data, 1, Len(before.data)) = before.data
           /\ LET e == Load.data[Len(Load.data)]
              IN /\ e.id = reply.resp.id /\ e.id \in IdSpace
                 /\ e.timestamp = clock
                 /\ e = Entry(reply.req.raw.v, e.id, e.timestamp)

\* a successful append to a document that already held an entry
C5_Witness ==
    /\ reply.resp.status = "200" /\ IsSubmit(reply.req)
    /\ reply.req.raw.v = VariedBody
    /\ Len(before.data) >= 1
    /\ Len(Load.data) = Len(before.data) + 1

\* C6: between requests, a load returns the entries of the successful
\* appends in commit order, and row i + 1 of the report made from it is the
\* row of the i-th committed entry, numbered i.
C6_Ordering ==
    ~ServerBusy
        => /\ ~Load.err /\ Load.data = committed
           /\ LET rows == make_xlsx(Load.data)
              IN \A i \in 1..Len(committed) :
                     /\ rows[i + 1][1] = i
                     /\ rows[i + 1] = Row(i, committed[i])

\* C7: between requests, every entry that was once persisted is still in
\* the document, unchanged and in its place: the sequence of committed
\* entries is a prefix of what a load returns.
C7_AppendOnly ==
    ~ServerBusy => ~Load.err /\ IsPrefix(committed, Load.data)

RequiredText ==
    {"surname", "firstname", "birthdate", "country", "city", "team", "phone"}

Constrained(e) ==
    /\ \A f \in RequiredText : e[f] # <<>> /\ ~IsSpace(Head(e[f]))
                               /\ ~IsSpace(e[f][Len(e[f])])
    /\ e.gender \in VALID_GENDERS
    /\ e.boat_class \in VALID_BOATS

\* C9: every persisted entry has its required text fields non-blank, its
\* gender among the two values and its boat class among the fixed ones.
C9_PersistedConstrained ==
    /\ \A i \in 1..Len(committed) : Constrained(committed[i])
    /\ ~Load.err => \A i \in 1..Len(Load.data) : Constrained(Load.data[i])

\* an entry made from a padded surname is persisted
C9_Witness ==
    /\ ~Load.err
    /\ \E i \in 1..Len(Load.data) :
           Load.data[i] = Entry(VariedBody, Load.data[i].id, Load.data[i].timestamp)

\* C10: the persisted collection never holds two entries with the same id,
\* and an id returned for a submission is not assigned to a later one.
C10_UniqueIds ==
    /\ ~Load.err => DistinctIds(Load.data)
    /\ DistinctIds(committed)

\* the handler of connection c runs its first step: do_GET or do_POST up to
\* its reply or to the call of read_registrations
Started(c) == h[c].pc = "pending" /\ h'[c].pc # "pending"

\* the request that handler is serving
StartedReq(c) == IF h'[c].pc = "closed" THEN reply'.req ELSE h'[c].req

RequiredNames ==
    {"surname", "firstname", "birthdate", "gender", "country", "city", "team",
     "boat_class", "phone"}

AllBlank(s) == \A i \in 1..Len(s) : s[i] = " "

\* a JSON object whose required fields are text where they are present
TextOrMissing(raw) ==
    /\ raw.k = "obj"
    /\ \A f \in RequiredNames : f \in DOMAIN raw.v => raw.v[f].k = "str"

\* f is missing, or empty once trimmed
Offending(raw, f) == f \notin DOMAIN raw.v \/ AllBlank(raw.v[f].v)

StoreUnchanged == file' = file /\ committed' = committed

\* C11: a submission of text fields in which a required field is missing or
\* empty after trimming is rejected at once, the rejection names such a
\* field (the first one in the fixed order), and nothing is appended.
C11_RequiredRejected ==
    [][\A c \in Conn :
          (/\ Started(c)
           /\ IsSubmit(StartedReq(c))
           /\ TextOrMissing(StartedReq(c).raw)
           /\ \E f \in RequiredNames : Offending(StartedReq(c).raw, f))
          => /\ h'[c].pc = "closed"
             /\ reply'.resp.status = "400"
             /\ reply'.resp.error = "required"
             /\ reply'.resp.field \in RequiredNames
             /\ Offending(StartedReq(c).raw, reply'.resp.field)
             /\ \A i \in 1..Len(required) : \A j \in 1..Len(required) :
                    (i < j /\ required[j] = reply'.resp.field)
                        => ~Offending(StartedReq(c).raw, required[i])
             /\ StoreUnchanged]_vars

\* with an entry in the store, a submission lacking birthdate and phone is
\* rejected naming birthdate
C11_Witness ==
    /\ reply.req.raw = JObj(Without(Without(BaseBody, "phone"), "birthdate"))
    /\ reply.resp = FieldRequired("birthdate")
    /\ ~Load.err /\ Len(Load.data) >= 1

\* a JSON object with every required field present, text and not blank
RequiredPresent(raw) ==
    /\ TextOrMissing(raw)
    /\ \A f \in RequiredNames : ~Offending(raw, f)

\* C12: a submission with all required fields present whose gender is not
\* one of the two values, or whose boat_class is not one of the fixed
\* categories, is rejected at once and nothing is appended.
C12_EnumRejected ==
    [][\A c \in Conn :
          (/\ Started(c)
           /\ IsSubmit(StartedReq(c))
           /\ RequiredPresent(StartedReq(c).raw)
           /\ \/ StartedReq(c).raw.v["gender"].v \notin VALID_GENDERS
              \/ StartedReq(c).raw.v["boat_class"].v \notin VALID_BOATS)
          => /\ h'[c].pc = "closed"
             /\ reply'.resp.status = "400"
             /\ reply'.resp.error =
                    IF StartedReq(c).raw.v["gender"].v \notin VALID_GENDERS
                    THEN "bad gender" ELSE "bad boat class"
             /\ StoreUnchanged]_vars

\* with an entry in the store, a submission with an unknown boat class is
\* rejected
C12_Witness ==
    /\ reply.req.raw = JObj([BaseBody EXCEPT !.boat_class = JStr(<<"K", "-", "3">>)])
    /\ reply.resp = BadBoat
    /\ ~Load.err /\ Len(Load.data) >= 1

\* valid but for its distances: every required field present, the enums
\* known, and distances a list (or left out)
OtherwiseValid(raw) ==
    /\ RequiredPresent(raw)
    /\ raw.v["gender"].v \in VALID_GENDERS
    /\ raw.v["boat_class"].v \in VALID_BOATS
    /\ "distances" \in DOMAIN raw.v => raw.v["distances"].k = "list"

Candidates(raw) ==
    IF "distances" \in DOMAIN raw.v THEN raw.v["distances"].v ELSE <<>>

InCatalogue(d) == d.k = "str" /\ d.v \in VALID_DISTANCES

\* C13: for every otherwise valid submission the handler goes on to store
\* an entry: a candidate of the input distances is in the entry's distances
\* if and only if it is in the catalogue, and an unknown candidate never ends
\* the submission.
C13_DistancesFiltered ==
    [][\A c \in Conn :
          (/\ Started(c)
           /\ IsSubmit(StartedReq(c))
           /\ OtherwiseValid(StartedReq(c).raw))
          => /\ h'[c].pc = "read"
             /\ LET cand == Candidates(h'[c].req.raw)
                    kept == h'[c].entry.distances
                IN /\ \A i \in 1..Len(kept) : kept[i] \in VALID_DISTANCES
                   /\ \A i \in 1..Len(cand) :
                          InCatalogue(cand[i])
                              <=> \E j \in 1..Len(kept) : kept[j] = cand[i].v]_vars

NoRepeats(list) ==
    \A i \in 1..Len(list) : \A j \in 1..Len(list) : i # j => list[i] # list[j]

\* C14: the distances of every persisted entry are catalogue values, none
\* of them more than once.
C14_DistancesSet ==
    /\ \A i \in 1..Len(committed) :
           /\ NoRepeats(committed[i].distances)
           /\ \A k \in 1..Len(committed[i].distances) :
                  committed[i].distances[k] \in VALID_DISTANCES
    /\ ~Load.err => \A i \in 1..Len(Load.data) : NoRepeats(Load.data[i].distances)

IsListing(r) == r.method = "GET" /\ r.path = "/api"

IsExport(r) == r.method = "POST" /\ r.path = "/api/export"

\* C15: a listing or export request with a credential other than the secret
\* is answered 401 with no registration data and never reads the document;
\* with the secret it is answered with exactly what the document holds now
\* (the listing's data, or the report's rows), unless the document cannot
\* be loaded.
C15_Authorization ==
    /\ \A c \in Conn :
           (h[c].pc = "read" /\ (IsListing(h[c].req) \/ IsExport(h[c].req)))
               => h[c].req.token = ADMIN_TOKEN
    /\ (IsListing(reply.req) \/ IsExport(reply.req))
           => IF reply.req.token # ADMIN_TOKEN
              THEN /\ reply.resp.status = "401"
                   /\ ~reply.resp.success
                   /\ reply.resp.data = <<>>
              ELSE IF Load.err THEN reply.resp.status = "raised"
              ELSE /\ reply.resp.status = "200"
                   /\ IsListing(reply.req) => reply.resp.data = Load.data
                   /\ IsExport(reply.req)
                          => /\ Len(reply.resp.data) = Len(Load.data) + 1
                             /\ \A i \in 1..Len(Load.data) :
                                    reply.resp.data[i + 1] = Row(i, Load.data[i])

\* a listing with a wrong credential is refused while the store holds
\* two entries
C15_Witness ==
    /\ IsListing(reply.req) /\ reply.req.token # ADMIN_TOKEN
    /\ reply.resp = Unauthorized
    /\ ~Load.err /\ Len(Load.data) >= 2

\* the payload is not JSON, is not a JSON object, or gives a required field
\* a value that is not text
Malformed(raw) == ~TextOrMissing(raw)

\* C16: a submission whose payload is malformed is answered at once with
\* an explicit 400 error and appends nothing, and no submission ends
\* without a result sent to the caller.
C16_MalformedExplicit ==
    [][/\ \A c \in Conn :
              (Started(c) /\ IsSubmit(StartedReq(c))
                 /\ Malformed(StartedReq(c).raw))
                  => /\ h'[c].pc = "closed"
                     /\ reply'.resp.status = "400"
                     /\ ~reply'.resp.success
                     /\ StoreUnchanged
       /\ IsSubmit(reply'.req) => reply'.resp.status # "raised"]_vars

FreeText ==
    {"surname", "firstname", "patronymic", "birthdate", "country", "city",
     "rank", "team", "phone"}

Spaces(n) == [i \in 1..n |-> " "]

\* t is s without its leading and trailing spaces
TrimOf(s, t) ==
    /\ \E a, b \in 0..Len(s) : s = Spaces(a) \o t \o Spaces(b)
    /\ t # <<>> => t[1] # " " /\ t[Len(t)] # " "

Entity(ch) ==
    IF ch = "<" THEN <<"&", "l", "t", ";">>
    ELSE IF ch = ">" THEN <<"&", "g", "t", ";">>
    ELSE IF ch = "&" THEN <<"&", "a", "m", "p", ";">>
    ELSE IF ch = "\"" THEN <<"&", "q", "u", "o", "t", ";">>
    ELSE IF ch = "'" THEN <<"&", "#", "x", "2", "7", ";">>
    ELSE <<ch>>

RECURSIVE Markup(_, _)
\* the first n characters of t, each markup character as its entity
Markup(t, n) == IF n = 0 THEN <<>> ELSE Markup(t, n - 1) \o Entity(t[n])

\* the text given for field f, empty when the field is left out
Given(raw, f) == IF f \in DOMAIN raw.v THEN raw.v[f].v ELSE <<>>

Clean(s) ==
    /\ s # <<>> => s[1] # " " /\ s[Len(s)] # " "
    /\ \A i \in 1..Len(s) : s[i] \notin {"<", ">", "\"", "'"}

\* C17: the entry built from an accepted submission holds, in each
\* free-text field, the escaped form of the trimmed input; every persisted
\* free-text field has no leading or trailing space and no raw '<', '>' or
\* quote.
C17_Sanitized ==
    /\ [][\A c \in Conn :
              (Started(c) /\ IsSubmit(StartedReq(c)) /\ h'[c].pc = "read")
                  => \A f \in FreeText :
                         \E i, j \in 0..Len(Given(StartedReq(c).raw, f)) :
                            LET t == SubSeq(Given(StartedReq(c).raw, f), i + 1, j)
                            IN /\ TrimOf(Given(StartedReq(c).raw, f), t)
                               /\ h'[c].entry[f] = Markup(t, Len(t))]_vars
    /\ [](\A i \in 1..Len(committed) : \A f \in FreeText : Clean(committed[i][f]))
    /\ [](\A i \in 1..Len(Load.data) : \A f \in FreeText : Clean(Load.data[i][f]))

\* the padded surname " <a> " and the patronymic of quotes are persisted
\* trimmed and escaped
C17_Witness ==
    \E i \in 1..Len(Load.data) :
        /\ Load.data[i].surname = <<"&", "l", "t", ";", "a", "&", "g", "t", ";">>
        /\ Load.data[i].patronymic =
               <<"&", "q", "u", "o", "t", ";", "&", "a", "m", "p", ";",
                 "&", "#", "x", "2", "7", ";">>
        /\ i <= Len(committed)

\* the entry field shown in columns 2 to 13
ColumnField ==
    <<"", "timestamp", "surname", "firstname", "patronymic", "birthdate",
      "gender", "country", "city", "rank", "team", "boat_class", "phone">>

RECURSIVE Listed(_, _)
\* the first n distances, separated by a comma and a space
Listed(d, n) ==
    IF n = 0 THEN <<>>
    ELSE IF n = 1 THEN d[1]
    ELSE Listed(d, n - 1) \o <<",", " ">> \o d[n]

\* rows is the report of the M entries of data: M + 1 rows of 14 columns,
\* the header row first, then row i for entry i in the fixed column order
ReportOf(rows, data) ==
    /\ Len(rows) = Len(data) + 1
    /\ \A r \in 1..Len(rows) : Len(rows[r]) = 14
    /\ rows[1] = <<"No", "timestamp", "surname", "firstname", "patronymic",
                   "birthdate", "gender", "country", "city", "rank", "team",
                   "boat_class", "phone", "distances">>
    /\ \A i \in 1..Len(data) :
           /\ rows[i + 1][1] = i
           /\ \A col \in 2..13 : rows[i + 1][col] = data[i][ColumnField[col]]
           /\ rows[i + 1][14] = Listed(data[i].distances, Len(data[i].distances))

\* C18: the report of M stored registrations has M + 1 rows, each of the
\* same 14 columns in the fixed order, whatever the store holds, and an
\* export request is answered with that report.
C18_ExportShape ==
    /\ ~Load.err => ReportOf(make_xlsx(Load.data), Load.data)
    /\ (IsExport(reply.req) /\ reply.resp.status = "200")
           => ReportOf(reply.resp.data, Load.data)

\* an export is answered while the store holds two entries, one of them
\* with one distance and one with two
C18_Witness ==
    /\ IsExport(reply.req) /\ reply.resp.status = "200"
    /\ Len(reply.resp.data) = 3
    /\ \E i, j \in 2..3 :
           /\ reply.resp.data[i][14] = <<"2", "0", "0">>
           /\ reply.resp.data[j][14] = <<"5", "0", "0", ",", " ", "5", "0", "0">>

\* handler c takes a step
Moves(c) == h'[c] # h[c]

\* C19: the document changes only in a step of the handler of a submission
\* that passed every validation check; a handler that reads or writes the
\* document for a submission has passed them all, and the step that
\* validates (and rejects, or refuses, or finds no route) leaves the
\* document as it is.
C19_OnlyAcceptedChangesStore ==
    /\ [](\A c \in Conn :
              (h[c].pc \in Running /\ IsSubmit(h[c].req))
                  => OtherwiseValid(h[c].req.raw))
    /\ [][(file' # file \/ committed' # committed)
              => \E c \in Conn :
                     /\ h[c].pc \in Running
                     /\ IsSubmit(h[c].req)
                     /\ OtherwiseValid(h[c].req.raw)
                     /\ Moves(c)]_vars
    /\ [][\A c \in Conn :
              (Started(c) \/ (Moves(c) /\ ~IsSubmit(h[c].req)))
                  => StoreUnchanged]_vars

\* a request to an unknown route has been answered and the two stored
\* entries are still there
C19_Witness ==
    /\ reply.resp = NotFound
    /\ ~Load.err /\ Len(Load.data) = 2 /\ Load.data = committed

\* the document is absent, holds nothing but whitespace, or holds one JSON
\* value that is not an array
Blankish(f) ==
    \/ ~f.exists
    \/ \A i \in 1..Len(f.content) : f.content[i].t = "space"
    \/ Len(f.content) = 1 /\ f.content[1].t = "value"

EmptyLoad == [err |-> FALSE, data |-> <<>>]

\* C20: an absent, blank or non-array document loads as the empty sequence
\* without error; the submission that reads it goes on with a list of only
\* its own entry, and when its write returns the document is an array
\* holding only that entry.
C20_BlankReadAsEmpty ==
    /\ [](Blankish(file) => Load = EmptyLoad)
    /\ [][\A c \in Conn :
              (h[c].pc = "read" /\ IsSubmit(h[c].req) /\ Blankish(file) /\ Moves(c))
                  => /\ h'[c].pc = "save_open"
                     /\ h'[c].registrations = <<h[c].entry>>]_vars
    /\ [][\A c \in Conn :
              (/\ h[c].pc = "save_write" /\ Moves(c)
               /\ reply'.resp.success
               /\ before = EmptyLoad)
                  => /\ file'.content = <<Tok("[", <<>>), Tok("entry", h[c].entry),
                                          Tok("]", <<>>)>>
                     /\ read_registrations(file').data = <<h[c].entry>>
                     /\ ~read_registrations(file').err]_vars

\* a submission has read a document holding a non-array value and is about
\* to write the list of its own entry over it
C20_Witness ==
    \E c \in Conn :
        /\ h[c].pc = "save_open"
        /\ file.exists /\ Len(file.content) = 1 /\ file.content[1].t = "value"
        /\ h[c].registrations = <<h[c].entry>>

====
